---------------------------- MODULE Spec2Model ----------------------------
(***************************************************************************)
(* A model of aocommon::OverlappingTaskProcessor                           *)
(* (vendor/aocommon/aocommon/overlappingtaskprocessor.h).                  *)
(*                                                                         *)
(* One processor instance owns three semaphores.  Every Process() call is  *)
(* a coordinator thread that reads the chunks of its lane and queues one   *)
(* work item per chunk in the shared task queue; the threads of the pool   *)
(* pop the work items and run them.  Every semaphore operation, every lane *)
(* read and every step of a work item is one atomic action, so that all    *)
(* interleavings of the coordinators and of the pool are explored.         *)
(***************************************************************************)
EXTENDS Naturals, Sequences, FiniteSets

(* Bounds of the model: the longest lane and the largest pool. *)
MaxChunks == 3
MaxWorkers == 3

(* "NB! At most two concurrent Process() calls are allowed." *)
MaxConcurrentCalls == 2
(* std::counting_semaphore<2> x(2), both for the instance and per call. *)
CountCapacity == 2
(* std::binary_semaphore x(1). *)
BinaryCapacity == 1

(* The Process() calls made on the instance: as many as may be active at    *)
(* once.  Each is made at any time, so the two calls overlap in every way   *)
(* or follow one another on the same instance.                              *)
ProcessCalls == 1..MaxConcurrentCalls

VARIABLES
  pc,                             \* where the coordinator of each Process() call is
  data_lane,                      \* per call: the chunks its lane has still to deliver
  chunk_data,                     \* per call: the local chunk_data
  chunk_index,                    \* per call: the local chunk_index
  currently_processing_semaphore, \* per call: the call's own counting semaphore
  drain_i,                        \* per call: the i of the final acquire loop
  processing_count_semaphore_,    \* member, counting_semaphore<2>
  processing_order_semaphore_,    \* member, binary_semaphore
  lane_process_semaphore_,        \* member, binary_semaphore
  task_queue_,                    \* the work items queued and not yet popped
  running,                        \* the work items a pool thread is executing
  pool_size,                      \* the number of threads of the pool
  emitted,                        \* history: per call, all chunks its lane emits
  lane_order,                     \* history: the calls in the order they acquired the lane semaphore
  calls,                          \* history: per call, the (index, chunk) pairs handed to the callback
  returns,                        \* history: per call, the number of callbacks that returned
  log,                            \* per call: the log the callback appends to
  silent,                         \* the chunks (call, index) whose callback returns without its release()
  band_data_,                     \* MultiBandData::band_data_, the vector of a VectorMap
  band_ret,                       \* what the last operation on the MultiBandData returned or threw
  band_data_before                \* history: band_data_ as that operation found it

vars == <<pc, data_lane, chunk_data, chunk_index, currently_processing_semaphore,
          drain_i, processing_count_semaphore_, processing_order_semaphore_,
          lane_process_semaphore_, task_queue_, running, pool_size,
          emitted, lane_order, calls, returns, log,
          silent, band_data_, band_ret, band_data_before>>

multiband_vars == <<band_data_, band_ret, band_data_before>>
processor_vars == <<pc, data_lane, chunk_data, chunk_index,
                    currently_processing_semaphore, drain_i,
                    processing_count_semaphore_, processing_order_semaphore_,
                    lane_process_semaphore_, task_queue_, running, pool_size,
                    emitted, lane_order, calls, returns, log>>
coordinator_vars == <<pc, data_lane, chunk_data, chunk_index, drain_i>>
history_vars == <<emitted, lane_order, calls, returns, log>>

(* The chunk a lane emits at zero-based position k.  The processor never   *)
(* looks into a chunk, so it is enough that the chunks of one lane differ. *)
Payload(k) == 10 * (k + 1)
LaneContents(n) == [k \in 1..n |-> Payload(k - 1)]
NoChunk == 0

(* A call is active from its entry to its return. *)
Active(p) == pc[p] \notin {"idle", "done"}

(* A MultiBandData as MultiBandData() = default leaves it, nothing returned yet. *)
NoResult == [op |-> "none", value |-> 0, error |-> "none"]
InitMultiBand ==
  /\ band_data_ = <<>>
  /\ band_ret = NoResult
  /\ band_data_before = <<>>

(* The processor as its constructor leaves it, before any Process() call. *)
InitProcessor ==
  /\ pc = [p \in ProcessCalls |-> "idle"]
  /\ emitted \in [ProcessCalls -> {LaneContents(n) : n \in 0..MaxChunks}]
  /\ data_lane = emitted
  /\ chunk_data = [p \in ProcessCalls |-> NoChunk]
  /\ chunk_index = [p \in ProcessCalls |-> 0]
  /\ currently_processing_semaphore = [p \in ProcessCalls |-> 0]
  /\ drain_i = [p \in ProcessCalls |-> 0]
  /\ processing_count_semaphore_ = CountCapacity
  /\ processing_order_semaphore_ = BinaryCapacity
  /\ lane_process_semaphore_ = BinaryCapacity
  /\ task_queue_ = <<>>
  /\ running = {}
  /\ pool_size \in 1..MaxWorkers
  /\ lane_order = <<>>
  /\ calls = [p \in ProcessCalls |-> <<>>]
  /\ returns = [p \in ProcessCalls |-> 0]
  /\ log = [p \in ProcessCalls |-> <<>>]

(* Every callback keeps the contract: it releases the order semaphore once. *)
Init ==
  /\ InitProcessor
  /\ silent = {}
  /\ InitMultiBand

(* Process(), entry: the call's own semaphore is created with 2 units. *)
ProcessEnter(p) ==
  /\ pc[p] = "idle"
  /\ Cardinality({q \in ProcessCalls : Active(q)}) < MaxConcurrentCalls
  /\ currently_processing_semaphore' =
       [currently_processing_semaphore EXCEPT ![p] = CountCapacity]
  /\ pc' = [pc EXCEPT ![p] = "lane_acquire"]
  /\ UNCHANGED <<data_lane, chunk_data, chunk_index, drain_i,
                 processing_count_semaphore_, processing_order_semaphore_,
                 lane_process_semaphore_, task_queue_, running, pool_size,
                 history_vars>>
  /\ UNCHANGED <<silent, multiband_vars>>

(* LaneAcquire without waiting for the semaphore. *)
LaneAcquire_NoWait(p) ==
  /\ pc[p] = "lane_acquire"
  /\ lane_order' = Append(lane_order, p)
  /\ pc' = [pc EXCEPT ![p] = "read"]
  /\ UNCHANGED <<data_lane, chunk_data, chunk_index, drain_i,
                 currently_processing_semaphore,
                 processing_count_semaphore_, processing_order_semaphore_,
                 lane_process_semaphore_, task_queue_, running, pool_size,
                 emitted, calls, returns, log>>
  /\ UNCHANGED <<silent, multiband_vars>>

(* ProcessAllChunksForLane: lane_process_semaphore_.acquire() *)
LaneAcquire(p) ==
  /\ pc[p] = "lane_acquire"
  /\ lane_process_semaphore_ > 0
  /\ lane_process_semaphore_' = lane_process_semaphore_ - 1
  /\ lane_order' = Append(lane_order, p)
  /\ pc' = [pc EXCEPT ![p] = "read"]
  /\ UNCHANGED <<data_lane, chunk_data, chunk_index, drain_i,
                 currently_processing_semaphore,
                 processing_count_semaphore_, processing_order_semaphore_,
                 task_queue_, running, pool_size,
                 emitted, calls, returns, log>>
  /\ UNCHANGED <<silent, multiband_vars>>

(* while (data_lane.read(chunk_data)): the next chunk, or the end of the lane. *)
LaneRead(p) ==
  /\ pc[p] = "read"
  /\ IF data_lane[p] # <<>>
       THEN /\ chunk_data' = [chunk_data EXCEPT ![p] = Head(data_lane[p])]
            /\ data_lane' = [data_lane EXCEPT ![p] = Tail(data_lane[p])]
            /\ pc' = [pc EXCEPT ![p] = "count_acquire"]
       ELSE /\ UNCHANGED <<chunk_data, data_lane>>
            /\ pc' = [pc EXCEPT ![p] = "lane_release"]
  /\ UNCHANGED <<chunk_index, drain_i, currently_processing_semaphore,
                 processing_count_semaphore_, processing_order_semaphore_,
                 lane_process_semaphore_, task_queue_, running, pool_size,
                 history_vars>>
  /\ UNCHANGED <<silent, multiband_vars>>

(* QueueChunkCount without the acquire. *)
QueueChunkCount_NoAcquire(p) ==
  /\ pc[p] = "count_acquire"
  /\ pc' = [pc EXCEPT ![p] = "local_acquire"]
  /\ UNCHANGED <<data_lane, chunk_data, chunk_index, drain_i,
                 currently_processing_semaphore, processing_count_semaphore_,
                 processing_order_semaphore_, lane_process_semaphore_,
                 task_queue_, running, pool_size, history_vars>>
  /\ UNCHANGED <<silent, multiband_vars>>

(* QueueChunk: processing_count_semaphore_.acquire() *)
QueueChunkCount(p) ==
  /\ pc[p] = "count_acquire"
  /\ processing_count_semaphore_ > 0
  /\ processing_count_semaphore_' = processing_count_semaphore_ - 1
  /\ pc' = [pc EXCEPT ![p] = "local_acquire"]
  /\ UNCHANGED <<data_lane, chunk_data, chunk_index, drain_i,
                 currently_processing_semaphore, processing_order_semaphore_,
                 lane_process_semaphore_, task_queue_, running, pool_size,
                 history_vars>>
  /\ UNCHANGED <<silent, multiband_vars>>

(* QueueChunk: currently_processing_semaphore.acquire() *)
QueueChunkLocal(p) ==
  /\ pc[p] = "local_acquire"
  /\ currently_processing_semaphore[p] > 0
  /\ currently_processing_semaphore' =
       [currently_processing_semaphore EXCEPT ![p] = @ - 1]
  /\ pc' = [pc EXCEPT ![p] = "order_acquire"]
  /\ UNCHANGED <<data_lane, chunk_data, chunk_index, drain_i,
                 processing_count_semaphore_, processing_order_semaphore_,
                 lane_process_semaphore_, task_queue_, running, pool_size,
                 history_vars>>
  /\ UNCHANGED <<silent, multiband_vars>>

(* QueueChunkOrder without the acquire. *)
QueueChunkOrder_NoAcquire(p) ==
  /\ pc[p] = "order_acquire"
  /\ pc' = [pc EXCEPT ![p] = "emplace"]
  /\ UNCHANGED <<data_lane, chunk_data, chunk_index, drain_i,
                 currently_processing_semaphore, processing_count_semaphore_,
                 processing_order_semaphore_, lane_process_semaphore_,
                 task_queue_, running, pool_size, history_vars>>
  /\ UNCHANGED <<silent, multiband_vars>>

(* QueueChunk: processing_order_semaphore_.acquire() *)
QueueChunkOrder(p) ==
  /\ pc[p] = "order_acquire"
  /\ processing_order_semaphore_ > 0
  /\ processing_order_semaphore_' = processing_order_semaphore_ - 1
  /\ pc' = [pc EXCEPT ![p] = "emplace"]
  /\ UNCHANGED <<data_lane, chunk_data, chunk_index, drain_i,
                 currently_processing_semaphore, processing_count_semaphore_,
                 lane_process_semaphore_, task_queue_, running, pool_size,
                 history_vars>>
  /\ UNCHANGED <<silent, multiband_vars>>

(* The work item QueueChunk builds: the chunk is moved into the capture    *)
(* and the index is copied, both while the coordinator runs Emplace.       *)
WorkItem(p) ==
  [inv |-> p, chunk_index |-> chunk_index[p], chunk_data |-> chunk_data[p]]

(* QueueChunkEmplace without the ++chunk_index of the loop. *)
QueueChunkEmplace_NoIncrement(p) ==
  /\ pc[p] = "emplace"
  /\ task_queue_' = Append(task_queue_, WorkItem(p))
  /\ chunk_data' = [chunk_data EXCEPT ![p] = NoChunk]
  /\ pc' = [pc EXCEPT ![p] = "read"]
  /\ UNCHANGED <<data_lane, chunk_index, drain_i, currently_processing_semaphore,
                 processing_count_semaphore_, processing_order_semaphore_,
                 lane_process_semaphore_, running, pool_size, history_vars>>
  /\ UNCHANGED <<silent, multiband_vars>>

(* QueueChunk: task_queue_.Emplace(...), then ++chunk_index in the loop. *)
QueueChunkEmplace(p) ==
  /\ pc[p] = "emplace"
  /\ task_queue_' = Append(task_queue_, WorkItem(p))
  /\ chunk_data' = [chunk_data EXCEPT ![p] = NoChunk]
  /\ chunk_index' = [chunk_index EXCEPT ![p] = @ + 1]
  /\ pc' = [pc EXCEPT ![p] = "read"]
  /\ UNCHANGED <<data_lane, drain_i, currently_processing_semaphore,
                 processing_count_semaphore_, processing_order_semaphore_,
                 lane_process_semaphore_, running, pool_size, history_vars>>
  /\ UNCHANGED <<silent, multiband_vars>>

(* LaneRelease without the release. *)
LaneRelease_Forgotten(p) ==
  /\ pc[p] = "lane_release"
  /\ pc' = [pc EXCEPT ![p] = "drain"]
  /\ UNCHANGED <<data_lane, chunk_data, chunk_index, drain_i,
                 currently_processing_semaphore, lane_process_semaphore_,
                 processing_count_semaphore_, processing_order_semaphore_,
                 task_queue_, running, pool_size, history_vars>>
  /\ UNCHANGED <<silent, multiband_vars>>

(* ProcessAllChunksForLane: lane_process_semaphore_.release() *)
LaneRelease(p) ==
  /\ pc[p] = "lane_release"
  /\ lane_process_semaphore_' = lane_process_semaphore_ + 1
  /\ pc' = [pc EXCEPT ![p] = "drain"]
  /\ UNCHANGED <<data_lane, chunk_data, chunk_index, drain_i,
                 currently_processing_semaphore,
                 processing_count_semaphore_, processing_order_semaphore_,
                 task_queue_, running, pool_size, history_vars>>
  /\ UNCHANGED <<silent, multiband_vars>>

(* ProcessDrain acquiring the semaphore of the instance instead of that  *)
(* of the call.                                                          *)
ProcessDrain_WrongSemaphore(p) ==
  /\ pc[p] = "drain"
  /\ processing_count_semaphore_ > 0
  /\ processing_count_semaphore_' = processing_count_semaphore_ - 1
  /\ drain_i' = [drain_i EXCEPT ![p] = @ + 1]
  /\ pc' = [pc EXCEPT ![p] = IF drain_i[p] + 1 < CountCapacity THEN "drain" ELSE "done"]
  /\ UNCHANGED <<data_lane, chunk_data, chunk_index,
                 currently_processing_semaphore, processing_order_semaphore_,
                 lane_process_semaphore_, task_queue_, running, pool_size,
                 history_vars>>
  /\ UNCHANGED <<silent, multiband_vars>>

(* ProcessDrain with the loop run once. *)
ProcessDrain_Once(p) ==
  /\ pc[p] = "drain"
  /\ currently_processing_semaphore[p] > 0
  /\ currently_processing_semaphore' =
       [currently_processing_semaphore EXCEPT ![p] = @ - 1]
  /\ drain_i' = [drain_i EXCEPT ![p] = @ + 1]
  /\ pc' = [pc EXCEPT ![p] = "done"]
  /\ UNCHANGED <<data_lane, chunk_data, chunk_index,
                 processing_count_semaphore_, processing_order_semaphore_,
                 lane_process_semaphore_, task_queue_, running, pool_size,
                 history_vars>>
  /\ UNCHANGED <<silent, multiband_vars>>

(* Process(): for (i = 0; i < 2; ++i) currently_processing_semaphore.acquire(); *)
(* after the second acquire the call returns.                                  *)
ProcessDrain(p) ==
  /\ pc[p] = "drain"
  /\ currently_processing_semaphore[p] > 0
  /\ currently_processing_semaphore' =
       [currently_processing_semaphore EXCEPT ![p] = @ - 1]
  /\ drain_i' = [drain_i EXCEPT ![p] = @ + 1]
  /\ pc' = [pc EXCEPT ![p] = IF drain_i[p] + 1 < CountCapacity THEN "drain" ELSE "done"]
  /\ UNCHANGED <<data_lane, chunk_data, chunk_index,
                 processing_count_semaphore_, processing_order_semaphore_,
                 lane_process_semaphore_, task_queue_, running, pool_size,
                 history_vars>>
  /\ UNCHANGED <<silent, multiband_vars>>

(* A work item together with the place its execution has reached. *)
At(t, phase) ==
  [inv |-> t.inv, chunk_index |-> t.chunk_index, chunk_data |-> t.chunk_data,
   phase |-> phase]

Move(t, phase) == (running \ {t}) \cup {At(t, phase)}

(* The pool runs one work item per thread. *)
PoolHasFreeThread == Cardinality(running) < pool_size

(* A free thread of the pool pops the oldest work item and calls            *)
(* processing_function(std::move(chunk_data), chunk_index, order semaphore). *)
TaskStart ==
  /\ task_queue_ # <<>>
  /\ PoolHasFreeThread
  /\ LET t == Head(task_queue_) IN
       /\ running' = running \cup {At(t, "executing")}
       /\ calls' = [calls EXCEPT ![t.inv] = Append(@, <<t.chunk_index, t.chunk_data>>)]
  /\ task_queue_' = Tail(task_queue_)
  /\ UNCHANGED <<coordinator_vars, currently_processing_semaphore,
                 processing_count_semaphore_, processing_order_semaphore_,
                 lane_process_semaphore_, pool_size,
                 emitted, lane_order, returns, log>>
  /\ UNCHANGED <<silent, multiband_vars>>

(* The callback, before its signal: it records (index, chunk) in its log. *)
CallbackRecord == \E t \in running :
  /\ t.phase = "executing"
  /\ log' = [log EXCEPT ![t.inv] = Append(@, <<t.chunk_index, t.chunk_data>>)]
  /\ running' = Move(t, "recorded")
  /\ UNCHANGED <<coordinator_vars, currently_processing_semaphore,
                 processing_count_semaphore_, processing_order_semaphore_,
                 lane_process_semaphore_, task_queue_, pool_size,
                 emitted, lane_order, calls, returns>>
  /\ UNCHANGED <<silent, multiband_vars>>

(* The callback calls release() on the semaphore it was given. *)
CallbackSignal == \E t \in running :
  /\ t.phase = "recorded"
  /\ <<t.inv, t.chunk_index>> \notin silent
  /\ processing_order_semaphore_' = processing_order_semaphore_ + 1
  /\ running' = Move(t, "signaled")
  /\ UNCHANGED <<coordinator_vars, currently_processing_semaphore,
                 processing_count_semaphore_, lane_process_semaphore_,
                 task_queue_, pool_size, history_vars>>
  /\ UNCHANGED <<silent, multiband_vars>>

(* The callback returns to the work item. *)
CallbackReturn == \E t \in running :
  /\ t.phase = "signaled"
  /\ returns' = [returns EXCEPT ![t.inv] = @ + 1]
  /\ running' = Move(t, "returned")
  /\ UNCHANGED <<coordinator_vars, currently_processing_semaphore,
                 processing_count_semaphore_, processing_order_semaphore_,
                 lane_process_semaphore_, task_queue_, pool_size,
                 emitted, lane_order, calls, log>>
  /\ UNCHANGED <<silent, multiband_vars>>

(* A callback that breaks the contract: it returns to the work item       *)
(* without having called release() on the semaphore it was given.         *)
CallbackReturnSilent == \E t \in running :
  /\ t.phase = "recorded"
  /\ <<t.inv, t.chunk_index>> \in silent
  /\ returns' = [returns EXCEPT ![t.inv] = @ + 1]
  /\ running' = Move(t, "returned")
  /\ UNCHANGED <<coordinator_vars, currently_processing_semaphore,
                 processing_count_semaphore_, processing_order_semaphore_,
                 lane_process_semaphore_, task_queue_, pool_size,
                 emitted, lane_order, calls, log>>
  /\ UNCHANGED <<silent, multiband_vars>>

(* TaskReleaseLocal releasing the semaphore of the instance instead of   *)
(* that of the call.                                                     *)
TaskReleaseLocal_WrongSemaphore == \E t \in running :
  /\ t.phase = "returned"
  /\ processing_count_semaphore_' = processing_count_semaphore_ + 1
  /\ running' = Move(t, "local_released")
  /\ UNCHANGED <<coordinator_vars, currently_processing_semaphore,
                 processing_order_semaphore_, lane_process_semaphore_,
                 task_queue_, pool_size, history_vars>>
  /\ UNCHANGED <<silent, multiband_vars>>

(* Work item: currently_processing_semaphore.release() *)
TaskReleaseLocal == \E t \in running :
  /\ t.phase = "returned"
  /\ currently_processing_semaphore' =
       [currently_processing_semaphore EXCEPT ![t.inv] = @ + 1]
  /\ running' = Move(t, "local_released")
  /\ UNCHANGED <<coordinator_vars, processing_count_semaphore_,
                 processing_order_semaphore_, lane_process_semaphore_,
                 task_queue_, pool_size, history_vars>>
  /\ UNCHANGED <<silent, multiband_vars>>

(* TaskReleaseCount with the release left out. *)
TaskReleaseCount_NoRelease == \E t \in running :
  /\ t.phase = "local_released"
  /\ running' = running \ {t}
  /\ UNCHANGED <<coordinator_vars, currently_processing_semaphore,
                 processing_count_semaphore_,
                 processing_order_semaphore_, lane_process_semaphore_,
                 task_queue_, pool_size, history_vars>>
  /\ UNCHANGED <<silent, multiband_vars>>

(* Work item: processing_count_semaphore_.release(); the work item ends. *)
TaskReleaseCount == \E t \in running :
  /\ t.phase = "local_released"
  /\ processing_count_semaphore_' = processing_count_semaphore_ + 1
  /\ running' = running \ {t}
  /\ UNCHANGED <<coordinator_vars, currently_processing_semaphore,
                 processing_order_semaphore_, lane_process_semaphore_,
                 task_queue_, pool_size, history_vars>>
  /\ UNCHANGED <<silent, multiband_vars>>

(* The steps of the coordinator of call p, from the entry of Process() on. *)
CoordinatorStep(p) ==
  \/ LaneAcquire(p)
  \/ LaneRead(p)
  \/ QueueChunkCount(p)
  \/ QueueChunkLocal(p)
  \/ QueueChunkOrder(p)
  \/ QueueChunkEmplace(p)
  \/ LaneRelease(p)
  \/ ProcessDrain(p)

Next ==
  \/ \E p \in ProcessCalls :
       \/ ProcessEnter(p)
       \/ CoordinatorStep(p)
  \/ TaskStart
  \/ CallbackRecord
  \/ CallbackSignal
  \/ CallbackReturn
  \/ TaskReleaseLocal
  \/ TaskReleaseCount

Spec == Init /\ [][Next]_vars

(* The processor given a processing_function that, for at most one of the  *)
(* chunks, does not call release().  One such chunk is enough: the order   *)
(* semaphore is never released after it, so a second one is never reached. *)
InitSilent ==
  /\ InitProcessor
  /\ silent \in {{}} \cup {{<<p, i>>} : p \in ProcessCalls, i \in 0..(MaxChunks - 1)}
  /\ \A s \in silent : s[2] < Len(emitted[s[1]])
  /\ InitMultiBand

NextSilent ==
  \/ Next
  \/ CallbackReturnSilent

SpecSilent == InitSilent /\ [][NextSilent]_vars

(* A caller that breaks the contract on the number of calls: one call more *)
(* than allowed has entered Process() together with the others, each on a  *)
(* lane of its own of at most MaxChunksOverload chunks.                    *)
MaxChunksOverload == 1
OverloadCalls == 1..(MaxConcurrentCalls + 1)

InitOverload ==
  /\ pc = [p \in OverloadCalls |-> "lane_acquire"]
  /\ emitted \in [OverloadCalls -> {LaneContents(n) : n \in 0..MaxChunksOverload}]
  /\ data_lane = emitted
  /\ chunk_data = [p \in OverloadCalls |-> NoChunk]
  /\ chunk_index = [p \in OverloadCalls |-> 0]
  /\ currently_processing_semaphore = [p \in OverloadCalls |-> CountCapacity]
  /\ drain_i = [p \in OverloadCalls |-> 0]
  /\ processing_count_semaphore_ = CountCapacity
  /\ processing_order_semaphore_ = BinaryCapacity
  /\ lane_process_semaphore_ = BinaryCapacity
  /\ task_queue_ = <<>>
  /\ running = {}
  /\ pool_size \in 1..MaxWorkers
  /\ lane_order = <<>>
  /\ calls = [p \in OverloadCalls |-> <<>>]
  /\ returns = [p \in OverloadCalls |-> 0]
  /\ log = [p \in OverloadCalls |-> <<>>]
  /\ silent = {}
  /\ InitMultiBand

NextOverload ==
  \/ \E p \in OverloadCalls : CoordinatorStep(p)
  \/ TaskStart
  \/ CallbackRecord
  \/ CallbackSignal
  \/ CallbackReturn
  \/ TaskReleaseLocal
  \/ TaskReleaseCount

SpecOverload == InitOverload /\ [][NextOverload]_vars

(***************************************************************************)
(* aocommon::MultiBandData (vendor/aocommon/aocommon/multibanddata.h) over *)
(* aocommon::VectorMap (external/aocommon/aocommon/vectormap.h).  A vector *)
(* is a sequence whose element k + 1 is the value of key k.  A BandData is *)
(* the sequence of its channel frequencies.                                *)
(***************************************************************************)

(* Bounds: the longest vector, the largest band index, the widest band. *)
MaxSlots == 3
MaxBandId == 1
MaxChannels == 2

Min(a, b) == IF a < b THEN a ELSE b
Max(a, b) == IF a < b THEN b ELSE a

(* OptionalNumber<size_t>: unset, or a number. *)
Unset == [has_value |-> FALSE, number |-> 0]
Number(n) == [has_value |-> TRUE, number |-> n]
HasValue(o) == o.has_value
(* lhs < rhs: an unset number is below every number. *)
Less(lhs, rhs) ==
  IF lhs.has_value /\ rhs.has_value THEN lhs.number < rhs.number
  ELSE ~lhs.has_value /\ rhs.has_value

(* BandData() is BandData(0); a BandData of n channels. *)
ChannelFrequency(k) == 100 + k
BandData(n) == [k \in 1..n |-> ChannelFrequency(k)]
ChannelCount(band) == Len(band)
(* The bands handed to AddBand and SetBand: of two different widths. *)
BandInputs == {BandData(MaxChannels - 1), BandData(MaxChannels)}

(* std::pair<OptionalNumber<size_t>, BandData>, and its default value. *)
element_type(band_id, data) == [first |-> Number(band_id), second |-> data]
DefaultElement == [first |-> Unset, second |-> BandData(0)]

(* VectorMap *)
Size(data_) == Len(data_)
Empty(data_) == data_ = <<>>
Resize(data_, new_size) ==
  IF new_size <= Len(data_) THEN SubSeq(data_, 1, new_size)
  ELSE data_ \o [k \in 1..(new_size - Len(data_)) |-> DefaultElement]
EmplaceBack(data_, value) == Append(data_, value)

(* AlwaysEmplace that, as std::map::emplace, keeps a value that is there. *)
AlwaysEmplace_KeepsExisting(data_, index, value) ==
  IF index >= Size(data_)
    THEN EmplaceBack(Resize(data_, index), value)
    ELSE data_

(* AlwaysEmplace with the vector resized past the index. *)
AlwaysEmplace_ResizePastIndex(data_, index, value) ==
  IF index >= Size(data_)
    THEN [Resize(data_, index + 2) EXCEPT ![index + 1] = value]
    ELSE [data_ EXCEPT ![index + 1] = value]

AlwaysEmplace(data_, index, value) ==
  IF index >= Size(data_)
    THEN EmplaceBack(Resize(data_, index), value)
    ELSE [data_ EXCEPT ![index + 1] = value]

(* Find that takes the default constructed elements for absent. *)
Find_EndForDefault(data_, index) ==
  IF index < Size(data_) /\ data_[index + 1] # DefaultElement
    THEN index + 1
    ELSE Len(data_) + 1

(* Find(index): the position begin() + index, or end(); positions as for   *)
(* the iterators, k + 1 for key k and Len + 1 for end().                   *)
Find(data_, index) ==
  IF index < Size(data_) THEN index + 1 ELSE Len(data_) + 1

(* MultiBandData, the band_data_ of the instance written as `bands`. *)
HasDataDescId(bands, data_desc_id) ==
  data_desc_id < Size(bands) /\ HasValue(bands[data_desc_id + 1].first)

HighestDataDescId(bands) == Max(1, Size(bands)) - 1

DataDescIds(bands) == {id \in 0..Size(bands) : HasDataDescId(bands, id)}

(* An OptionalNumber where a bool is wanted, as in !iterator_->first. *)
ToBool(o) == HasValue(o)

(* std::count_if over the vector of the elements whose first has a value. *)
BandCount(bands) == Cardinality({k \in 1..Len(bands) : HasValue(bands[k].first)})

(* The iterators hold a position in the vector: k + 1 for key k, and       *)
(* Len + 1 for end().                                                      *)
End(bands) == Len(bands) + 1

(* SkipUnset that leaves the iterator where it is. *)
SkipUnset_NoSkip(bands, iterator_) == iterator_

(* while (iterator_ != end && !iterator_->first) ++iterator_; *)
RECURSIVE SkipUnset(_, _)
SkipUnset(bands, iterator_) ==
  IF iterator_ # End(bands) /\ ~ToBool(bands[iterator_].first)
    THEN SkipUnset(bands, iterator_ + 1)
    ELSE iterator_

(* for (id : DataDescIds()): the values of operator* from begin() until    *)
(* the iterator equals end(), moved on by operator++.                      *)
RECURSIVE DataDescIdsFrom(_, _)
DataDescIdsFrom(bands, iterator_) ==
  IF iterator_ = SkipUnset(bands, End(bands)) THEN <<>>
  ELSE <<iterator_ - 1>> \o DataDescIdsFrom(bands, SkipUnset(bands, iterator_ + 1))

DataDescIdRange(bands) == DataDescIdsFrom(bands, SkipUnset(bands, 1))

(* for (band : bands): the same walk by MultiBandDataConstIterator, whose  *)
(* operator* is iterator_->second.                                         *)
RECURSIVE BandsFrom(_, _)
BandsFrom(bands, iterator_) ==
  IF iterator_ = SkipUnset(bands, End(bands)) THEN <<>>
  ELSE <<bands[iterator_].second>> \o BandsFrom(bands, SkipUnset(bands, iterator_ + 1))

BandRange(bands) == BandsFrom(bands, SkipUnset(bands, 1))

(* HighestBandId taking the number of the first band of the vector. *)
HighestBandId_First(bands) ==
  IF Empty(bands) THEN {0}
  ELSE LET set == {k \in 1..Len(bands) : HasValue(bands[k].first)}
       IN  IF set = {} THEN 0..MaxBandId
           ELSE {bands[CHOOSE k \in set : \A j \in set : k <= j].first.number}

(* The values HighestBandId() can return: the number of a largest element  *)
(* of the vector; reading the number of an unset largest element is        *)
(* undefined, any number may come out.                                     *)
HighestBandId(bands) ==
  IF Empty(bands) THEN {0}
  ELSE LET largest == {k \in 1..Len(bands) :
                        \A j \in 1..Len(bands) : ~Less(bands[k].first, bands[j].first)}
       IN  IF \E k \in largest : HasValue(bands[k].first)
             THEN {bands[k].first.number : k \in largest}
             ELSE 0..MaxBandId

(* band_id = band_data_.Empty() ? 0 : HighestBandId() + 1 *)
NextBandId(bands) ==
  IF Empty(bands) THEN {0} ELSE {h + 1 : h \in HighestBandId(bands)}

Outcome(op, value, error) == [op |-> op, value |-> value, error |-> error]

(* size_t AddBand(const BandData& data) *)
AddBand(data) ==
  \E band_id \in NextBandId(band_data_) :
    LET data_desc_id == Size(band_data_) IN
    /\ data_desc_id < MaxSlots
    /\ band_id <= MaxBandId
    /\ band_data_' = EmplaceBack(band_data_, element_type(band_id, data))
    /\ band_ret' = Outcome("AddBand", data_desc_id, "none")
    /\ band_data_before' = band_data_
    /\ UNCHANGED <<processor_vars, silent>>

(* void SetBand(size_t data_desc_id, const BandData& data) *)
SetBand(data_desc_id, data) ==
  \E band_id \in NextBandId(band_data_) :
    /\ band_id <= MaxBandId
    /\ band_data_' = AlwaysEmplace(band_data_, data_desc_id, element_type(band_id, data))
    /\ band_ret' = Outcome("SetBand", data_desc_id, "none")
    /\ band_data_before' = band_data_
    /\ UNCHANGED <<processor_vars, silent>>

(* size_t GetBandIndex(size_t data_desc_id) *)
GetBandIndex(bands, data_desc_id) == bands[data_desc_id + 1].first.number

(* BandDataPart that copies from the first channel on. *)
BandDataPart_IgnoresStart(source, startChannel, endChannel) ==
  SubSeq(source, 1, endChannel)

(* BandData(const BandData& source, size_t startChannel, size_t endChannel) *)
(* throws when the range holds no channel.                                 *)
BandDataPart(source, startChannel, endChannel) ==
  SubSeq(source, startChannel + 1, endChannel)

(* The constructor going through every slot of the source, the data_desc_ids *)
(* without a band included.                                                  *)
Constructed_ExaminesUnset(source, start_channel, end_channel) ==
  LET band_end_channel(id) == Min(ChannelCount(source[id + 1].second), end_channel)
      slots == 0..(Size(source) - 1)
      invalid == {id \in slots : start_channel > band_end_channel(id)}
      no_channels == {id \in slots : start_channel = band_end_channel(id)}
      failing == invalid \cup no_channels
      first_failing == CHOOSE id \in failing : \A other \in failing : id <= other
      copy == [k \in 1..Size(source) |->
                [first |-> source[k].first,
                 second |-> BandDataPart(source[k].second, start_channel,
                                         band_end_channel(k - 1))]]
  IN  IF failing = {}
        THEN [bands |-> copy, error |-> "none"]
        ELSE [bands |-> <<>>,
              error |-> IF first_failing \in invalid
                          THEN "Invalid band selection"
                          ELSE "No channels in set"]

(* MultiBandData(source, start_channel, end_channel): the band_data_ of    *)
(* the instance constructed, or the exception thrown.  The bands are gone  *)
(* through in increasing data_desc_id, so the first band whose range is    *)
(* empty decides which exception it is.                                    *)
Constructed(source, start_channel, end_channel) ==
  LET band_end_channel(id) == Min(ChannelCount(source[id + 1].second), end_channel)
      invalid == {id \in DataDescIds(source) : start_channel > band_end_channel(id)}
      no_channels == {id \in DataDescIds(source) : start_channel = band_end_channel(id)}
      failing == invalid \cup no_channels
      first_failing == CHOOSE id \in failing : \A other \in failing : id <= other
      copy == [k \in 1..Size(source) |->
                IF HasDataDescId(source, k - 1)
                  THEN [first |-> source[k].first,
                        second |-> BandDataPart(source[k].second, start_channel,
                                                band_end_channel(k - 1))]
                  ELSE DefaultElement]
  IN  IF failing = {}
        THEN [bands |-> copy, error |-> "none"]
        ELSE [bands |-> <<>>,
              error |-> IF first_failing \in invalid
                          THEN "Invalid band selection"
                          ELSE "No channels in set"]

(* The constructor called with the instance itself as source: on success   *)
(* the instance is replaced by the copy, and when the constructor throws   *)
(* no copy exists and the instance is as it was.                           *)
PartialCopy(start_channel, end_channel) ==
  LET made == Constructed(band_data_, start_channel, end_channel) IN
  /\ band_data_before' = band_data_
  /\ band_data_' = IF made.error = "none" THEN made.bands ELSE band_data_
  /\ band_ret' = Outcome("MultiBandData", 0, made.error)
  /\ UNCHANGED <<processor_vars, silent>>

(* A MultiBandData on its own, next to a processor that is not used. *)
InitBands ==
  /\ InitProcessor
  /\ \A p \in ProcessCalls : emitted[p] = <<>>
  /\ pool_size = 1
  /\ silent = {}
  /\ InitMultiBand

NextBands ==
  \/ \E data \in BandInputs : AddBand(data)
  \/ \E data_desc_id \in 0..(MaxSlots - 1), data \in BandInputs :
       SetBand(data_desc_id, data)
  \/ \E start_channel \in 0..MaxChannels, end_channel \in 0..(MaxChannels + 1) :
       PartialCopy(start_channel, end_channel)

SpecBands == InitBands /\ [][NextBands]_vars

(***************************************************************************)
(* What is known of a chunk, read off the state.  Chunks are named by the  *)
(* call and the index their work item carries.                             *)
(***************************************************************************)
ChunkIndices == 0..(MaxChunks - 1)

(* The work item of chunk i of call p waits in the task queue. *)
Queued(p, i) ==
  \E k \in 1..Len(task_queue_) :
    task_queue_[k].inv = p /\ task_queue_[k].chunk_index = i

(* The work item of chunk i of call p is executed, at one of `phases`. *)
RunningAt(p, i, phases) ==
  \E t \in running : t.inv = p /\ t.chunk_index = i /\ t.phase \in phases

BeforeSignal == {"executing", "recorded"}
InCallback == {"executing", "recorded", "signaled"}
AfterCallback == {"returned", "local_released"}
AllPhases == InCallback \cup AfterCallback

(* The callback of chunk i of call p has been called. *)
Started(p, i) == \E k \in 1..Len(calls[p]) : calls[p][k][1] = i
(* ... and has released the order semaphore. *)
Signaled(p, i) ==
  Started(p, i) /\ ~RunningAt(p, i, BeforeSignal) /\ <<p, i>> \notin silent
(* ... and has returned. *)
Returned(p, i) == Started(p, i) /\ ~RunningAt(p, i, InCallback)
(* ... and its work item has released both counting semaphores. *)
Finished(p, i) == Started(p, i) /\ ~RunningAt(p, i, AllPhases)
(* The chunk was queued and its work item has not ended. *)
Outstanding(p, i) == Queued(p, i) \/ RunningAt(p, i, AllPhases)
Submitted(p, i) == Queued(p, i) \/ Started(p, i)

(* Call a acquired lane_process_semaphore_ before call b did. *)
AcquiredBefore(a, b) ==
  \E j, k \in 1..Len(lane_order) :
    j < k /\ lane_order[j] = a /\ lane_order[k] = b

(* The callbacks that have started and not returned. *)
MidExecution == {t \in running : t.phase \in InCallback}

(* What the callbacks of call p are to be given, in order. *)
Expected(p) == [k \in 1..Len(emitted[p]) |-> <<k - 1, emitted[p][k]>>]

IsPrefix(s, t) == Len(s) <= Len(t) /\ \A k \in 1..Len(s) : s[k] = t[k]


(***************************************************************************)
(* The properties of OverlappingTaskProcessor.                             *)
(***************************************************************************)

(* C1: Process() returns only after exactly N callbacks of its lane of N   *)
(* chunks were called and have returned: once a call has returned, N       *)
(* callbacks were started for it, N have returned, and none of its work    *)
(* items is still queued or inside its callback.                           *)
C1_ReturnsAfterAllCallbacks ==
  \A p \in ProcessCalls :
    pc[p] = "done" =>
      /\ Len(calls[p]) = Len(emitted[p])
      /\ returns[p] = Len(emitted[p])
      /\ \A i \in ChunkIndices : ~Queued(p, i) /\ ~RunningAt(p, i, InCallback)

(* A call over a lane of MaxChunks chunks has returned. *)
C1_Witness ==
  \E p \in ProcessCalls :
    pc[p] = "done" /\ Len(emitted[p]) = MaxChunks /\ returns[p] = MaxChunks

(* C2: within one call, whenever the callback of chunk i+1 has started,    *)
(* the callback of chunk i has already released the order semaphore.       *)
C2_StartsAfterPreviousSignal ==
  \A p \in ProcessCalls : \A i \in ChunkIndices :
    Started(p, i + 1) => Signaled(p, i)

(* The callback of chunk 1 has just started while the callback of chunk 0  *)
(* of the same call, which has signaled, is still running.                 *)
C2_Witness ==
  \E p \in ProcessCalls :
    RunningAt(p, 1, {"executing"}) /\ RunningAt(p, 0, {"signaled"})

(* C3: at most 2 callbacks, over all calls on the instance, have started   *)
(* and not yet returned.                                                   *)
C3_AtMostTwoMidExecution == Cardinality(MidExecution) <= 2

(* Two callbacks of two different calls are mid-execution. *)
C3_Witness ==
  \E t, u \in MidExecution : t.inv # u.inv

(* C4: when call a acquired the lane semaphore before call b, then once   *)
(* the first callback of b has started at most one chunk of a is still     *)
(* outstanding (queued, or with a work item that has not ended).           *)
C4_AtMostOneOutstandingAtOverlap ==
  \A a, b \in ProcessCalls :
    (AcquiredBefore(a, b) /\ Started(b, 0)) =>
      Cardinality({i \in ChunkIndices : Outstanding(a, i)}) <= 1

(* Both calls are active, the first callback of the later call has just    *)
(* started and one chunk of the earlier call is outstanding.               *)
C4_Witness ==
  \E a, b \in ProcessCalls :
    /\ AcquiredBefore(a, b) /\ Active(a) /\ Active(b)
    /\ Len(emitted[a]) >= 2
    /\ RunningAt(b, 0, {"executing"})
    /\ Cardinality({i \in ChunkIndices : Outstanding(a, i)}) = 1

(* C5: every chunk read from a lane is handed to exactly one callback,     *)
(* once, with its zero-based position in the lane as index, counted per    *)
(* call: the callbacks of a call are given the lane's chunks in order, no  *)
(* chunk that was read is lost on the way, and when the call has returned  *)
(* all of them have been given.                                            *)
C5_EachChunkDeliveredOnceWithItsIndex ==
  \A p \in ProcessCalls :
    /\ IsPrefix(calls[p], Expected(p))
    /\ Len(emitted[p]) - Len(data_lane[p]) =
         Len(calls[p])
         + Cardinality({k \in 1..Len(task_queue_) : task_queue_[k].inv = p})
         + (IF pc[p] \in {"count_acquire", "local_acquire", "order_acquire", "emplace"}
              THEN 1 ELSE 0)
    /\ pc[p] = "done" => calls[p] = Expected(p)

(* Both calls have returned, each after a lane of at least two chunks. *)
C5_Witness ==
  \A p \in ProcessCalls :
    pc[p] = "done" /\ Len(emitted[p]) >= 2 /\ Len(calls[p]) = Len(emitted[p])

(* C6: lanes are processed in order: when call a acquired the lane         *)
(* semaphore before call b, then once the first callback of b has started  *)
(* every callback of a has started and has released the order semaphore.   *)
C6_LanesInOrder ==
  \A a, b \in ProcessCalls :
    (AcquiredBefore(a, b) /\ Started(b, 0)) =>
      \A i \in ChunkIndices : i < Len(emitted[a]) => Signaled(a, i)

(* The first callback of the later call has just started while the last    *)
(* callback of the earlier call, over at least two chunks, still runs.     *)
C6_Witness ==
  \E a, b \in ProcessCalls :
    /\ AcquiredBefore(a, b)
    /\ Len(emitted[a]) >= 2
    /\ RunningAt(b, 0, {"executing"})
    /\ RunningAt(a, Len(emitted[a]) - 1, {"signaled"})

(* C7, as claimed: when call a acquired the lane semaphore before call b,  *)
(* then once the first callback of b has started the last chunk of a has   *)
(* been queued and the callback of every chunk of a other than its last    *)
(* has returned.                                                           *)
C7_AllButLastFinished ==
  \A a, b \in ProcessCalls :
    (AcquiredBefore(a, b) /\ Started(b, 0)) =>
      \A i \in ChunkIndices :
        /\ i = Len(emitted[a]) - 1 => Submitted(a, i)
        /\ i < Len(emitted[a]) - 1 => Returned(a, i)

(* C7, amended: when call a acquired the lane semaphore before call b,     *)
(* then once the first callback of b has started the last chunk of a has   *)
(* been queued and, of any two chunks of a, one has finished: at most one  *)
(* chunk of a is unfinished, and it need not be the last one.              *)
C7_AllButOneFinished ==
  \A a, b \in ProcessCalls :
    (AcquiredBefore(a, b) /\ Started(b, 0)) =>
      /\ \A i \in ChunkIndices : i = Len(emitted[a]) - 1 => Submitted(a, i)
      /\ \A i, j \in ChunkIndices :
           (i < j /\ j < Len(emitted[a])) => (Finished(a, i) \/ Finished(a, j))

(* a over [a0,a1,a2], b over [b0,b1]: b0 has just started, a2 has finished *)
(* and a1 is still inside its callback.                                    *)
C7_Witness ==
  \E a, b \in ProcessCalls :
    /\ AcquiredBefore(a, b)
    /\ Len(emitted[a]) = 3 /\ Len(emitted[b]) = 2
    /\ RunningAt(b, 0, {"executing"})
    /\ Finished(a, 2)
    /\ RunningAt(a, 1, {"signaled"})

(* C8: the callback appends (index, chunk) to its log before it signals    *)
(* and goes on working afterwards; when Process() has returned the log is  *)
(* the lane's chunks in order, paired with 0..N-1, whatever the pool size. *)
C8_LogInEmissionOrder ==
  \A p \in ProcessCalls :
    pc[p] = "done" => log[p] = Expected(p)

(* The lane [10,20,30] gave the log [(0,10),(1,20),(2,30)], after two      *)
(* callbacks of the call had been inside the callback at the same time.    *)
C8_Witness ==
  \E p \in ProcessCalls :
    /\ pc[p] = "done"
    /\ emitted[p] = <<10, 20, 30>>
    /\ log[p] = << <<0, 10>>, <<1, 20>>, <<2, 30>> >>
    /\ pool_size >= 2

(* The coordinator of call p is between its acquire and its release of    *)
(* lane_process_semaphore_.                                                *)
Pulling(p) ==
  pc[p] \in {"read", "count_acquire", "local_acquire", "order_acquire",
             "emplace", "lane_release"}

(* C9: a call over a lane that ends after 0 chunks acquires and then       *)
(* releases the lane semaphore only: none of its steps changes the count   *)
(* semaphore, the order semaphore, the task queue or the running work      *)
(* items, it never enters QueueChunk, no callback is called for it, and    *)
(* once it has returned it holds no unit of the lane semaphore; run alone, *)
(* it returns with the three semaphores as they were before the call.      *)
C9_EmptyLaneOnlyLaneSemaphore ==
  /\ [](\A p \in ProcessCalls :
          emitted[p] = <<>> =>
            /\ calls[p] = <<>>
            /\ pc[p] \notin {"count_acquire", "local_acquire", "order_acquire", "emplace"}
            /\ pc[p] = "done" =>
                 /\ lane_process_semaphore_ =
                      (IF \E q \in ProcessCalls : Pulling(q) THEN 0 ELSE BinaryCapacity)
                 /\ (\A q \in ProcessCalls \ {p} : pc[q] = "idle") =>
                      /\ processing_count_semaphore_ = CountCapacity
                      /\ processing_order_semaphore_ = BinaryCapacity
                      /\ lane_process_semaphore_ = BinaryCapacity)
  /\ [][\A p \in ProcessCalls :
          (emitted[p] = <<>> /\ pc'[p] # pc[p]) =>
            /\ processing_count_semaphore_' = processing_count_semaphore_
            /\ processing_order_semaphore_' = processing_order_semaphore_
            /\ task_queue_' = task_queue_
            /\ running' = running
            /\ IF pc[p] = "lane_acquire"
                 THEN lane_process_semaphore_' + 1 = lane_process_semaphore_
                 ELSE IF pc[p] = "lane_release"
                   THEN lane_process_semaphore_' = lane_process_semaphore_ + 1
                   ELSE lane_process_semaphore_' = lane_process_semaphore_]_vars

(* A call over an empty lane has returned while work items of the other    *)
(* call are queued or running.                                             *)
C9_Witness ==
  \E p \in ProcessCalls :
    /\ emitted[p] = <<>> /\ pc[p] = "done"
    /\ \E q \in ProcessCalls \ {p} : Active(q) /\ running # {}

(* C10, as claimed: a call over an empty lane completes without waiting    *)
(* for any callback to execute, also while another call is active: as long *)
(* as it has not returned, some coordinator can take a step, so that its   *)
(* progress never rests on the pool running a callback.                    *)
C10_EmptyLaneNeverWaitsForCallbacks ==
  \A p \in ProcessCalls :
    (emitted[p] = <<>> /\ Active(p)) =>
      \E q \in ProcessCalls : ENABLED CoordinatorStep(q)

(* C10, amended: a call over an empty lane waits for no callback once it   *)
(* holds the lane semaphore and its final drain never blocks; it can be    *)
(* blocked only at the acquire of the lane semaphore, while the other call *)
(* is pulling and queuing its chunks.                                      *)
C10_EmptyLaneWaitsOnlyForLaneSemaphore ==
  \A p \in ProcessCalls :
    (emitted[p] = <<>> /\ Active(p) /\ ~ENABLED CoordinatorStep(p)) =>
      /\ pc[p] = "lane_acquire"
      /\ lane_process_semaphore_ = 0
      /\ \E q \in ProcessCalls \ {p} : Pulling(q)

(* A call over an empty lane is blocked at the lane semaphore while the    *)
(* other call, holding it, waits for a callback to release the order       *)
(* semaphore.                                                              *)
C10_Witness ==
  \E p \in ProcessCalls :
    /\ emitted[p] = <<>> /\ pc[p] = "lane_acquire"
    /\ \E q \in ProcessCalls \ {p} :
         pc[q] = "order_acquire" /\ processing_order_semaphore_ = 0

(***************************************************************************)
(* Fairness: a coordinator that can take its next step takes it (a thread  *)
(* whose semaphore is free, or whose lane has a chunk or has ended, is not *)
(* held back forever), and the pool goes on running the work items it was  *)
(* given as long as it can do something.  Whether and when Process() is    *)
(* called is up to the caller.                                             *)
(***************************************************************************)
PoolStep ==
  \/ TaskStart
  \/ CallbackRecord
  \/ CallbackSignal
  \/ CallbackReturn
  \/ TaskReleaseLocal
  \/ TaskReleaseCount

Fairness ==
  /\ \A p \in ProcessCalls : WF_vars(CoordinatorStep(p))
  /\ WF_vars(PoolStep)

FairSpec == Spec /\ Fairness

(* C11: with at most two concurrent calls, lanes that end, callbacks that  *)
(* signal once and return, and a pool of at least one thread that runs the *)
(* items it is given, every Process() call that was made returns: from    *)
(* some moment on every call is either not made or has returned, and a     *)
(* call that was made never counts as not made again.                      *)
C11_EveryCallReturns ==
  /\ <>[](\A p \in ProcessCalls : pc[p] \in {"idle", "done"})
  /\ [][\A p \in ProcessCalls : pc[p] # "idle" => pc'[p] # "idle"]_vars

(* Both calls were made, over lanes of MaxChunks chunks, on a pool of one  *)
(* thread, and both have returned.                                         *)
C11_Witness ==
  /\ pool_size = 1
  /\ \A p \in ProcessCalls : pc[p] = "done" /\ Len(emitted[p]) = MaxChunks

(***************************************************************************)
(* A callback that never releases the order semaphore.                     *)
(***************************************************************************)

(* The work item of a chunk whose callback does not signal was queued. *)
SilentSubmitted == \E s \in silent : Submitted(s[1], s[2])

(* C12 as stated: once a callback that never signals was submitted, no     *)
(* further chunk is submitted and the call that pulled its chunk never     *)
(* returns.                                                                *)
C12_SilentCallNeverReturns ==
  \A s \in silent : Submitted(s[1], s[2]) => pc[s[1]] # "done"

(* C12: once the work item of a callback that never signals was queued,    *)
(* no further work item is ever queued on the instance, and the call that  *)
(* pulled that chunk does not return when a further chunk follows it in    *)
(* its lane: the call never gets past that next chunk.                     *)
C12_SilentBlocksSubmission ==
  /\ [](\A s \in silent :
         (Submitted(s[1], s[2]) /\ s[2] + 1 < Len(emitted[s[1]])) =>
           /\ pc[s[1]] \notin {"lane_release", "drain", "done"}
           /\ chunk_index[s[1]] <= s[2] + 1)
  /\ [][SilentSubmitted => Len(task_queue_') <= Len(task_queue_)]_vars

(* The callback of chunk 0 returned without its signal, its work item      *)
(* ended, and the call waits for the order semaphore with chunk 1, while   *)
(* nothing is queued or executed.                                          *)
C12_Witness ==
  \E p \in ProcessCalls :
    /\ <<p, 0>> \in silent
    /\ returns[p] = 1
    /\ pc[p] = "order_acquire"
    /\ chunk_index[p] = 1
    /\ task_queue_ = <<>>
    /\ running = {}

(***************************************************************************)
(* More concurrent calls than the class allows.                            *)
(***************************************************************************)

(* C13 as stated: with more than two calls active at once the instance     *)
(* ends in a deadlock, so that not every call returns.                     *)
C13_OverloadDeadlocks == \E p \in OverloadCalls : pc[p] # "done"

(* C13: with one call more than allowed active at once, and callbacks that *)
(* signal, the instance never deadlocks: as long as some call has not      *)
(* returned or some work item has not ended, a coordinator or a work item  *)
(* can take its next step; and once every call has returned and every work *)
(* item has ended the semaphores of the instance are free again.           *)
C13_OverloadNeverDeadlocks ==
  IF (\A p \in OverloadCalls : pc[p] = "done") /\ running = {} /\ task_queue_ = <<>>
    THEN /\ processing_count_semaphore_ = CountCapacity
         /\ processing_order_semaphore_ = BinaryCapacity
         /\ lane_process_semaphore_ = BinaryCapacity
    ELSE ENABLED NextOverload

(* All the calls have returned, each over a lane of MaxChunksOverload      *)
(* chunks, the call that entered last having pulled its lane first.        *)
C13_Witness ==
  /\ \A p \in OverloadCalls :
       pc[p] = "done" /\ returns[p] = MaxChunksOverload
  /\ Len(lane_order) = MaxConcurrentCalls + 1
  /\ lane_order[1] = MaxConcurrentCalls + 1

(***************************************************************************)
(* The return of Process() and the lane semaphore.                         *)
(***************************************************************************)

(* C14 as stated: when Process() has returned, every chunk of its lane is  *)
(* finished: its work item has released the semaphore of the call and the  *)
(* count semaphore of the instance, so that none of its work items still   *)
(* holds a unit of the count semaphore.                                    *)
C14_ReturnsAfterAllFinished ==
  \A p \in ProcessCalls :
    pc[p] = "done" =>
      \A i \in ChunkIndices : i < Len(emitted[p]) => Finished(p, i)

(* C15: at most one call at a time is between the acquire and the release  *)
(* of the lane semaphore; a call outside that phase has either read and    *)
(* queued nothing yet or read and queued its whole lane; and only a call   *)
(* in that phase reads from its lane or queues a work item.                *)
C15_OnePullingCallAtATime ==
  /\ [](\A p \in ProcessCalls :
         /\ Pulling(p) => \A q \in ProcessCalls \ {p} : ~Pulling(q)
         /\ ~Pulling(p) =>
              \/ /\ data_lane[p] = emitted[p]
                 /\ \A i \in ChunkIndices : ~Submitted(p, i)
              \/ /\ data_lane[p] = <<>>
                 /\ \A i \in ChunkIndices : i < Len(emitted[p]) => Submitted(p, i))
  /\ [][/\ \A p \in ProcessCalls : data_lane'[p] # data_lane[p] => Pulling(p)
        /\ Len(task_queue_') > Len(task_queue_) =>
             \E p \in ProcessCalls :
               /\ Pulling(p)
               /\ task_queue_'[Len(task_queue_')].inv = p]_vars

(* One call has queued its first chunk and goes on pulling, while the      *)
(* other call, whose lane has chunks too, waits for the lane semaphore.    *)
C15_Witness ==
  \E p, q \in ProcessCalls :
    /\ pc[p] = "read" /\ chunk_index[p] = 1 /\ data_lane[p] # <<>>
    /\ pc[q] = "lane_acquire" /\ data_lane[q] # <<>>

(* C16: the lane semaphore is held exactly while some call is in its       *)
(* pulling phase; a call whose read finds the lane exhausted goes to the   *)
(* release next, the release never waits, and the call then drains without *)
(* the lane semaphore, so that a call waiting for it can acquire it.       *)
C16_LaneReleasedBeforeDrain ==
  /\ [](/\ lane_process_semaphore_ =
            (IF \E q \in ProcessCalls : Pulling(q) THEN 0 ELSE BinaryCapacity)
        /\ \A p \in ProcessCalls :
             /\ pc[p] = "lane_release" => data_lane[p] = <<>> /\ ENABLED LaneRelease(p)
             /\ pc[p] = "drain" =>
                  \A q \in ProcessCalls :
                    (pc[q] = "lane_acquire" /\ \A r \in ProcessCalls : ~Pulling(r))
                      => ENABLED LaneAcquire(q))
  /\ [][\A p \in ProcessCalls :
          /\ (pc[p] = "read" /\ data_lane[p] = <<>> /\ pc'[p] # pc[p])
               => pc'[p] = "lane_release"
          /\ (pc[p] = "lane_release" /\ pc'[p] # pc[p])
               => pc'[p] = "drain" /\ drain_i'[p] = 0]_vars

(* The second call reads its first chunk while the first call drains and   *)
(* one of the first call's callbacks is still running.                     *)
C16_Witness ==
  \E p, q \in ProcessCalls :
    /\ pc[p] = "drain" /\ drain_i[p] = 0
    /\ \E i \in ChunkIndices : RunningAt(p, i, InCallback)
    /\ pc[q] = "read" /\ chunk_index[q] = 0 /\ data_lane[q] # <<>>

(* The work items of call p that hold a unit of the call's semaphore. *)
HoldingLocal(p) ==
  {i \in ChunkIndices : Queued(p, i) \/ RunningAt(p, i, InCallback \cup {"returned"})}

(* C17: a draining call waits for its own work items only: the units free  *)
(* in its semaphore are those not taken by its own pending work items or   *)
(* by its own drain, so once none of its work items is pending the drain   *)
(* proceeds, whatever the other call has queued or running.                *)
C17_DrainWaitsForOwnChunksOnly ==
  \A p \in ProcessCalls :
    pc[p] = "drain" =>
      /\ currently_processing_semaphore[p] =
           CountCapacity - drain_i[p] - Cardinality(HoldingLocal(p))
      /\ HoldingLocal(p) = {} => ENABLED ProcessDrain(p)

(* A call over a lane with chunks has returned while the other call has a  *)
(* work item in the queue and another inside its callback.                 *)
C17_Witness ==
  \E p, q \in ProcessCalls :
    /\ pc[p] = "done" /\ emitted[p] # <<>>
    /\ \E i, j \in ChunkIndices : Queued(q, i) /\ RunningAt(q, j, InCallback)

(* Every call made has returned and no work item is queued or running. *)
Quiescent ==
  /\ \A p \in ProcessCalls : pc[p] \in {"idle", "done"}
  /\ task_queue_ = <<>>
  /\ running = {}

(* C18: no step ever sets a semaphore of the instance anew, and whenever   *)
(* every call has returned and every work item has ended, the count        *)
(* semaphore has its 2 units free and the order and the lane semaphore are *)
(* free, as after construction.                                            *)
C18_SemaphoresFreeWhenQuiescent ==
  Quiescent =>
    /\ processing_count_semaphore_ = CountCapacity
    /\ processing_order_semaphore_ = BinaryCapacity
    /\ lane_process_semaphore_ = BinaryCapacity

(* Two calls over lanes with chunks, the second entered after the first    *)
(* had returned or while it ran, have returned and all work items ended.   *)
C18_Witness ==
  /\ Quiescent
  /\ \A p \in ProcessCalls : pc[p] = "done" /\ returns[p] >= 1
  /\ pool_size = MaxWorkers

(***************************************************************************)
(* The properties of MultiBandData.                                        *)
(***************************************************************************)

(* The smallest data_desc_id that has no band. *)
FirstAvailable(bands) ==
  CHOOSE id \in 0..Size(bands) :
    /\ ~HasDataDescId(bands, id)
    /\ \A lower \in 0..id : lower < id => HasDataDescId(bands, lower)

(* C19 as stated: AddBand gives the new band the smallest data_desc_id     *)
(* that had no band, returns it, HasDataDescId is true for it afterwards,  *)
(* and every band there was before is as it was.                           *)
C19_AddBandLinksFirstAvailable ==
  band_ret.op = "AddBand" =>
    /\ band_ret.value = FirstAvailable(band_data_before)
    /\ HasDataDescId(band_data_, band_ret.value)
    /\ \A id \in DataDescIds(band_data_before) :
         band_data_[id + 1] = band_data_before[id + 1]

(* C20: HighestDataDescId() is the largest data_desc_id that has a band,   *)
(* or zero when there is none; the last element of a vector that is not    *)
(* empty always has a band.                                                *)
C20_HighestDataDescIdIsLargestDefined ==
  /\ Size(band_data_) > 0 => HasDataDescId(band_data_, Size(band_data_) - 1)
  /\ IF DataDescIds(band_data_) = {}
       THEN HighestDataDescId(band_data_) = 0
       ELSE /\ HighestDataDescId(band_data_) \in DataDescIds(band_data_)
            /\ \A id \in DataDescIds(band_data_) : id <= HighestDataDescId(band_data_)

(* A partial copy was made of bands with data_desc_ids 1 and 2 and none    *)
(* with data_desc_id 0.                                                    *)
C20_Witness ==
  /\ band_ret.op = "MultiBandData" /\ band_ret.error = "none"
  /\ DataDescIds(band_data_) = {1, 2}
  /\ band_data_before # band_data_

(* C21: iterating DataDescIds() yields the data_desc_ids that have a band, *)
(* each once and in increasing order; begin()..end() visits the bands of   *)
(* those ids in that order; BandCount() is the number of ids yielded.      *)
C21_IterationYieldsDefinedIds ==
  LET ids == DataDescIdRange(band_data_)
      visited == BandRange(band_data_)
  IN  /\ {ids[k] : k \in 1..Len(ids)} = {id \in 0..Size(band_data_) : HasDataDescId(band_data_, id)}
      /\ \A j, k \in 1..Len(ids) : j < k => ids[j] < ids[k]
      /\ Len(visited) = Len(ids)
      /\ \A k \in 1..Len(ids) : visited[k] = band_data_[ids[k] + 1].second
      /\ BandCount(band_data_) = Len(ids)

(* Bands were set for data_desc_ids 0 and 2 and none for 1. *)
C21_Witness ==
  /\ Size(band_data_) = 3
  /\ DataDescIdRange(band_data_) = <<0, 2>>
  /\ band_ret.op = "SetBand"

(* What a partial copy of `source` over [start_channel, end_channel) is to *)
(* be: the same data_desc_ids with the same band indices, and of each band *)
(* the channels from start_channel up to, and without, the smaller of      *)
(* end_channel and the band's channel count.                               *)
IsPartialCopy(copy, source, start_channel, end_channel) ==
  /\ \A id \in 0..Max(Size(source), Size(copy)) :
       HasDataDescId(copy, id) <=> HasDataDescId(source, id)
  /\ \A id \in 0..Size(source) :
       HasDataDescId(source, id) =>
         LET band == source[id + 1].second
             last == Min(end_channel, ChannelCount(band))
         IN  /\ GetBandIndex(copy, id) = GetBandIndex(source, id)
             /\ ChannelCount(copy[id + 1].second) = last - start_channel
             /\ \A k \in 1..(last - start_channel) :
                  copy[id + 1].second[k] = band[start_channel + k]

(* C22: for every source and every channel range, a partial copy that is  *)
(* constructed defines the data_desc_ids of its source with the same band  *)
(* indices, each band holding the channels start_channel up to (excluding) *)
(* min(end_channel, channel count of that band), whether or not the bands  *)
(* have the same number of channels.                                       *)
C22_PartialCopySelectsChannels ==
  \A start_channel \in 0..MaxChannels, end_channel \in 0..(MaxChannels + 1) :
    LET made == Constructed(band_data_, start_channel, end_channel) IN
    made.error = "none" =>
      IsPartialCopy(made.bands, band_data_, start_channel, end_channel)

(* A partial copy was made of two bands of different channel counts, with  *)
(* all the channels of the narrower band and as many of the wider one.     *)
C22_Witness ==
  /\ band_ret.op = "MultiBandData" /\ band_ret.error = "none"
  /\ \E i, j \in DataDescIds(band_data_before) :
       /\ ChannelCount(band_data_before[i + 1].second) <
            ChannelCount(band_data_before[j + 1].second)
       /\ band_data_[i + 1].second = band_data_before[i + 1].second
       /\ ChannelCount(band_data_[j + 1].second) =
            ChannelCount(band_data_[i + 1].second)

(***************************************************************************)
(* The properties of VectorMap, on the vector of the MultiBandData.        *)
(***************************************************************************)

(* The values and keys tried: every band with every band index, at every   *)
(* key up to one past the longest vector.                                  *)
ElementInputs == {element_type(band_id, data) : band_id \in 0..MaxBandId, data \in BandInputs}
KeyInputs == 0..MaxSlots

(* `after` is `before` with `value` stored at `index`. *)
IsEmplaced(after, before, index, value) ==
  /\ after[index + 1] = value
  /\ Size(after) = Max(Size(before), index + 1)
  /\ \A key \in 0..Size(before) :
       (key < Size(before) /\ key # index) => after[key + 1] = before[key + 1]
  /\ \A key \in 0..index :
       (Size(before) <= key /\ key < index) => after[key + 1] = DefaultElement

(* C23: AlwaysEmplace(k, v) stores v at key k whether or not the key is    *)
(* there: afterwards the value at k is v, the size is max(old size, k+1),  *)
(* the other keys below the old size keep their values and the keys from   *)
(* the old size up to k are default constructed; a lower key stored after  *)
(* a higher one leaves both values in place.  SetBand, which calls it,     *)
(* changes band_data_ in that way.                                         *)
C23_AlwaysEmplaceStores ==
  /\ \A index \in KeyInputs, value \in ElementInputs :
       IsEmplaced(AlwaysEmplace(band_data_, index, value), band_data_, index, value)
  /\ Empty(band_data_) =>
       \A high, low \in KeyInputs : \A a, b \in ElementInputs :
         low < high =>
           LET both == AlwaysEmplace(AlwaysEmplace(band_data_, high, a), low, b)
           IN  both[low + 1] = b /\ both[high + 1] = a /\ Size(both) = high + 1
  /\ band_ret.op = "SetBand" =>
       IsEmplaced(band_data_, band_data_before, band_ret.value,
                  band_data_[band_ret.value + 1])

(* SetBand stored a band at key 2 of an empty vector: 3 elements, the keys *)
(* 0 and 1 default constructed.                                            *)
C23_Witness ==
  /\ band_ret.op = "SetBand" /\ band_ret.value = 2
  /\ band_data_before = <<>>
  /\ Size(band_data_) = 3
  /\ band_data_[1] = DefaultElement /\ band_data_[2] = DefaultElement

C25_LastChunkStartedAtLaneAcquire ==
  \A a, b \in ProcessCalls :
    (AcquiredBefore(a, b) /\ emitted[a] # <<>>) =>
      Started(a, Len(emitted[a]) - 1)

(* C25: once call b has acquired the lane semaphore after call a released  *)
(* it, every chunk of a has been queued, the last one possibly still       *)
(* waiting in the task queue; its callback has started, and has signaled,  *)
(* once b has acquired the order semaphore for its first chunk.            *)
C25_LastChunkSignaledAtOrderAcquire ==
  \A a, b \in ProcessCalls :
    AcquiredBefore(a, b) =>
      /\ \A i \in ChunkIndices : i < Len(emitted[a]) => Submitted(a, i)
      /\ (pc[b] = "emplace" \/ Submitted(b, 0)) =>
           \A i \in ChunkIndices : i < Len(emitted[a]) => Signaled(a, i)

(* Call b has acquired the lane semaphore and read its first chunk while   *)
(* the last chunk of call a is still in the task queue.                    *)
C25_Witness ==
  \E a, b \in ProcessCalls :
    /\ AcquiredBefore(a, b)
    /\ emitted[a] # <<>> /\ Queued(a, Len(emitted[a]) - 1)
    /\ pc[b] = "count_acquire" /\ chunk_index[b] = 0

(* C26: the acquire of the call's own semaphore in QueueChunk never waits: *)
(* a coordinator that has just taken a unit of the count semaphore has at  *)
(* most one earlier work item of its own still holding a unit of the       *)
(* call's semaphore.  Nor do the Emplace and the release of the lane       *)
(* semaphore wait.  The acquires that can wait are those of the count      *)
(* semaphore, of the order semaphore and of the final drain, and each      *)
(* waits exactly when its semaphore has no unit.                           *)
C26_LocalAcquireNeverWaits ==
  \A p \in ProcessCalls :
    /\ pc[p] = "local_acquire" =>
         /\ Cardinality(HoldingLocal(p)) <= 1
         /\ currently_processing_semaphore[p] >= 1
         /\ ENABLED QueueChunkLocal(p)
    /\ pc[p] = "emplace" => ENABLED QueueChunkEmplace(p)
    /\ pc[p] = "lane_release" => ENABLED LaneRelease(p)
    /\ pc[p] = "count_acquire" =>
         (ENABLED QueueChunkCount(p) <=> processing_count_semaphore_ > 0)
    /\ pc[p] = "order_acquire" =>
         (ENABLED QueueChunkOrder(p) <=> processing_order_semaphore_ > 0)
    /\ pc[p] = "drain" =>
         (ENABLED ProcessDrain(p) <=> currently_processing_semaphore[p] > 0)

(* A coordinator is about to acquire the call's semaphore for its third    *)
(* chunk while one earlier work item of the call holds a unit of it and    *)
(* the count semaphore has no unit left.                                   *)
C26_Witness ==
  \E p \in ProcessCalls :
    /\ pc[p] = "local_acquire" /\ chunk_index[p] = 2
    /\ Cardinality(HoldingLocal(p)) = 1
    /\ processing_count_semaphore_ = 0

(* The steps of the lifecycle of a chunk, in order:                        *)
(*   0 not read yet              1 read from the lane                      *)
(*   2 count unit acquired       3 unit of the call's semaphore acquired   *)
(*   4 order semaphore acquired  5 work item queued                        *)
(*   6 callback running          7 callback has signaled                   *)
(*   8 callback has returned     9 unit of the call's semaphore released   *)
(*  10 count unit released, the work item has ended                        *)
Stage(p, i) ==
  IF i >= Len(emitted[p]) THEN 0
  ELSE IF Queued(p, i) THEN 5
  ELSE IF RunningAt(p, i, BeforeSignal) THEN 6
  ELSE IF RunningAt(p, i, {"signaled"}) THEN 7
  ELSE IF RunningAt(p, i, {"returned"}) THEN 8
  ELSE IF RunningAt(p, i, {"local_released"}) THEN 9
  ELSE IF Started(p, i) THEN 10
  ELSE IF chunk_index[p] # i THEN 0
  ELSE IF pc[p] = "count_acquire" THEN 1
  ELSE IF pc[p] = "local_acquire" THEN 2
  ELSE IF pc[p] = "order_acquire" THEN 3
  ELSE IF pc[p] = "emplace" THEN 4
  ELSE 0

ChunksAt(stages) ==
  {c \in ProcessCalls \X ChunkIndices : Stage(c[1], c[2]) \in stages}

(* C27: every chunk goes through the steps of its lifecycle in order, one  *)
(* at a time, none skipped and none taken back; the chunks that hold a     *)
(* unit of the count semaphore are those from step 2 to step 9, those that *)
(* hold a unit of their call's semaphore those from step 3 to step 8, and  *)
(* the one that holds the order semaphore is from step 4 to step 6: the    *)
(* signal is given while the callback runs, and the two units are given    *)
(* back only after the callback has returned.                              *)
C27_ChunkLifecycleInOrder ==
  /\ [](/\ processing_count_semaphore_ = CountCapacity - Cardinality(ChunksAt(2..9))
        /\ processing_order_semaphore_ = BinaryCapacity - Cardinality(ChunksAt(4..6))
        /\ \A p \in ProcessCalls :
             pc[p] # "idle" =>
               currently_processing_semaphore[p] =
                 CountCapacity - drain_i[p]
                   - Cardinality({i \in ChunkIndices : Stage(p, i) \in 3..8}))
  /\ [][\A p \in ProcessCalls : \A i \in ChunkIndices :
          Stage(p, i)' = Stage(p, i) \/ Stage(p, i)' = Stage(p, i) + 1]_vars

(* The first chunk of a call has given back the unit of the call's         *)
(* semaphore and not yet its count unit, the callback of the second has    *)
(* signaled and still runs, and the third, read, waits for a count unit.   *)
C27_Witness ==
  \E p \in ProcessCalls :
    Stage(p, 0) = 9 /\ Stage(p, 1) = 7 /\ Stage(p, 2) = 1

(* The work items given to the pool that have not ended: queued, or taken  *)
(* by a thread and not yet past the release of the count semaphore.        *)
InFlight == Len(task_queue_) + Cardinality(running)

(* The coordinators between the acquire of a count unit and the Emplace.   *)
HoldingCount ==
  {p \in ProcessCalls : pc[p] \in {"local_acquire", "order_acquire", "emplace"}}

(* C28: over all calls on the instance at most 2 work items are queued or  *)
(* executing, since each of them holds a unit of the count semaphore, taken *)
(* by the coordinator before it queued the item and given back by the item  *)
(* as its last statement: the units taken are those of the work items in    *)
(* flight and of the coordinators about to queue one.                       *)
C28_InFlightAtMostTwo ==
  /\ InFlight <= CountCapacity
  /\ InFlight + Cardinality(HoldingCount)
       = CountCapacity - processing_count_semaphore_

(* Two work items of two different calls are in flight, one queued and one *)
(* executing, and a coordinator with a chunk in hand waits for a count     *)
(* unit.                                                                    *)
C28_Witness ==
  /\ Len(task_queue_) = 1
  /\ \E t \in running : t.inv # task_queue_[1].inv
  /\ \E p \in ProcessCalls : pc[p] = "count_acquire"
  /\ processing_count_semaphore_ = 0

(* The work items that were queued and whose callback has not signaled.    *)
PreSignal ==
  Len(task_queue_) + Cardinality({t \in running : t.phase \in BeforeSignal})

(* Work item t was queued before work item u: by the same call for an      *)
(* earlier chunk, or by a call that held the lane semaphore earlier.       *)
SubmittedBefore(t, u) ==
  \/ t.inv = u.inv /\ t.chunk_index < u.chunk_index
  \/ t.inv # u.inv /\ AcquiredBefore(t.inv, u.inv)

(* C29: at most one work item on the instance has been queued and has not  *)
(* yet signaled: together with the coordinator that is about to queue one, *)
(* it is the holder of the order semaphore. So no two callbacks are before *)
(* their signal at once, and of two callbacks in execution the one queued  *)
(* first has signaled.                                                     *)
C29_OneUnsignaledAtATime ==
  /\ PreSignal <= BinaryCapacity
  /\ PreSignal + Cardinality({p \in ProcessCalls : pc[p] = "emplace"})
       = BinaryCapacity - processing_order_semaphore_
  /\ \A t, u \in MidExecution :
       SubmittedBefore(t, u) => t.phase = "signaled"
  /\ \A t, u \in MidExecution :
       t # u => (SubmittedBefore(t, u) \/ SubmittedBefore(u, t))

(* Two callbacks of two calls are in execution, the later one before its   *)
(* signal and so the holder of the order semaphore, while the coordinator  *)
(* of the later call has read its next chunk.                              *)
C29_Witness ==
  \E t, u \in MidExecution :
    /\ AcquiredBefore(t.inv, u.inv)
    /\ t.phase = "signaled"
    /\ u.phase = "recorded"
    /\ pc[u.inv] = "count_acquire"
    /\ processing_order_semaphore_ = 0

(***************************************************************************)
(* Callbacks that take long: each signals, and is still at its work after  *)
(* the signal for as long as the run is observed.  Every behaviour of this *)
(* specification is a behaviour of Spec.                                   *)
(***************************************************************************)

LongPoolStep ==
  \/ TaskStart
  \/ CallbackRecord
  \/ CallbackSignal

NextLongCallbacks ==
  \/ \E p \in ProcessCalls :
       \/ ProcessEnter(p)
       \/ CoordinatorStep(p)
  \/ LongPoolStep

FairnessLongCallbacks ==
  /\ \A p \in ProcessCalls : WF_vars(CoordinatorStep(p))
  /\ WF_vars(LongPoolStep)

SpecLongCallbacks ==
  Init /\ [][NextLongCallbacks]_vars /\ FairnessLongCallbacks

(* The callbacks of two successive chunks of call p are both in execution. *)
SameCallOverlap(p) ==
  \E i \in ChunkIndices :
    RunningAt(p, i, {"signaled"}) /\ RunningAt(p, i + 1, InCallback)

(* The last callback of call a and the first callback of call b, which     *)
(* pulled its lane after a, are both in execution.                         *)
CrossCallOverlap(a, b) ==
  /\ AcquiredBefore(a, b)
  /\ Len(emitted[a]) >= 1
  /\ RunningAt(a, Len(emitted[a]) - 1, {"signaled"})
  /\ RunningAt(b, 0, InCallback)

(* Call p was the first to acquire the lane semaphore. *)
PulledFirst(p) == lane_order # <<>> /\ lane_order[1] = p

(* C30: overlap is reached.  On a pool of at least two threads, with       *)
(* callbacks that signal and go on working after the signal, on every      *)
(* schedule: once a call over a lane of two chunks or more pulls first,    *)
(* the callbacks of two successive chunks of it come to be in execution    *)
(* together; once a call over a lane of one chunk pulls first and a second *)
(* call over a lane that is not empty has entered, the last callback of    *)
(* the first and the first callback of the second come to be in execution  *)
(* together.  On a pool of one thread no two callbacks ever are.           *)
C30_OverlapIsReached ==
  /\ \A p \in ProcessCalls :
       (pool_size >= 2 /\ PulledFirst(p) /\ Len(emitted[p]) >= 2)
         ~> SameCallOverlap(p)
  /\ \A a, b \in ProcessCalls :
       (/\ pool_size >= 2
        /\ a # b
        /\ PulledFirst(a)
        /\ Len(emitted[a]) = 1
        /\ pc[b] # "idle"
        /\ Len(emitted[b]) >= 1)
         ~> CrossCallOverlap(a, b)
  /\ [](pool_size = 1 => Cardinality(MidExecution) <= 1)

(* The only callback of the first call and the first callback of the       *)
(* second call have both signaled and are both at work, on a pool of two   *)
(* threads, while the second call holds its second chunk.                  *)
C30_Witness ==
  \E a, b \in ProcessCalls :
    /\ pool_size = 2
    /\ CrossCallOverlap(a, b)
    /\ Len(emitted[a]) = 1
    /\ RunningAt(b, 0, {"signaled"})
    /\ pc[b] = "count_acquire"

(***************************************************************************)
(* More calls than allowed: which of the waiting calls pulls next.         *)
(***************************************************************************)

(* The calls blocked in lane_process_semaphore_.acquire(). *)
WaitingForLane == {p \in OverloadCalls : pc[p] = "lane_acquire"}

(* C31: with three calls active at once, the calls are numbered in the     *)
(* order in which they were made.  Whenever the lane semaphore is free,    *)
(* each of the calls that wait for it can be the one that acquires it,     *)
(* whatever its number: the order of the later calls is not fixed.  Still  *)
(* one call pulls at a time, at most 2 work items are in flight and at     *)
(* most 2 callbacks in execution, at most one queued work item has not     *)
(* signaled, and of two callbacks in execution the one queued first has    *)
(* signaled.                                                               *)
C31_LaterCallsInAnyOrder ==
  /\ lane_process_semaphore_ = BinaryCapacity =>
       \A p \in WaitingForLane : ENABLED LaneAcquire(p)
  /\ lane_process_semaphore_ = 0 =>
       \A p \in WaitingForLane : ~ENABLED LaneAcquire(p)
  /\ Cardinality({p \in OverloadCalls : Pulling(p)}) <= BinaryCapacity
  /\ InFlight <= CountCapacity
  /\ Cardinality(MidExecution) <= CountCapacity
  /\ PreSignal <= BinaryCapacity
  /\ \A t, u \in MidExecution :
       SubmittedBefore(t, u) => t.phase = "signaled"

(* The call made first pulled first; of the two that waited meanwhile, the *)
(* one made last pulled next, and its callback runs together with that of  *)
(* the first call while the call made second still waits for the lane.     *)
C31_Witness ==
  /\ Len(lane_order) = 2
  /\ lane_order[1] = 1
  /\ lane_order[2] = MaxConcurrentCalls + 1
  /\ pc[MaxConcurrentCalls] = "lane_acquire"
  /\ RunningAt(1, 0, {"signaled"})
  /\ RunningAt(MaxConcurrentCalls + 1, 0, InCallback)

(***************************************************************************)
(* The callback of the last chunk of a call returns without its signal.    *)
(***************************************************************************)

(* The calls whose last chunk is the one whose callback does not signal,   *)
(* once the work item of that chunk was queued.                            *)
SilentLast ==
  {p \in ProcessCalls :
     /\ Len(emitted[p]) >= 1
     /\ <<p, Len(emitted[p]) - 1>> \in silent
     /\ Submitted(p, Len(emitted[p]) - 1)}

(* A step of the coordinator of call p or of one of the pool's threads. *)
CallOrPoolStep(p) ==
  \/ CoordinatorStep(p)
  \/ PoolStep
  \/ CallbackReturnSilent

(* C32: when only the callback of the last chunk of a call returns without *)
(* releasing the order semaphore, that call is never held up: until it has *)
(* returned, its coordinator or a thread of the pool can take a step.  The *)
(* order semaphore stays taken for good; every other call over a lane that *)
(* is not empty and that had not pulled its lane before never gets its     *)
(* first chunk queued and never returns.                                   *)
C32_SilentLastChunk ==
  \A a \in SilentLast :
    /\ pc[a] # "done" => ENABLED CallOrPoolStep(a)
    /\ processing_order_semaphore_ = 0
    /\ \A b \in ProcessCalls \ {a} :
         (Len(emitted[b]) >= 1 /\ ~AcquiredBefore(b, a)) =>
           /\ ~Submitted(b, 0)
           /\ pc[b] # "done"
           /\ chunk_index[b] = 0

(* The call whose last callback did not signal has returned, all its work  *)
(* items have ended, and the other call, made afterwards, waits for the    *)
(* order semaphore with its first chunk.                                   *)
C32_Witness ==
  \E a \in SilentLast : \E b \in ProcessCalls :
    /\ pc[a] = "done"
    /\ Len(emitted[a]) = MaxChunks
    /\ returns[a] = MaxChunks
    /\ running = {}
    /\ lane_order = <<a, b>>
    /\ pc[b] = "order_acquire"
    /\ processing_count_semaphore_ = CountCapacity - 1

(***************************************************************************)
(* What a work item uses of the call that queued it.                       *)
(***************************************************************************)

(* What lives in the scope of call p: the locals of Process() and of       *)
(* ProcessAllChunksForLane(), the lane, and the processing_function, seen  *)
(* through the record of its calls and returns.                            *)
InvocationState(p) ==
  <<currently_processing_semaphore[p], data_lane[p], chunk_data[p],
    chunk_index[p], drain_i[p], calls[p], returns[p], log[p]>>

(* The work items of call p that a thread has taken and that have not     *)
(* ended.                                                                  *)
WorkItemsOf(p) == {t \in running : t.inv = p}

(* C33: once a Process() call has returned, nothing that belongs to it is  *)
(* used again.  None of its work items is still queued, and each one that  *)
(* has not ended is past the release of the call's semaphore, its last use *)
(* of that semaphore and of the processing_function, with only the release *)
(* of the count semaphore of the instance left to do; and no step taken    *)
(* after the return changes anything in the scope of the call.             *)
C33_NothingOfACallUsedAfterReturn ==
  /\ [](\A p \in ProcessCalls :
         pc[p] = "done" =>
           /\ \A t \in WorkItemsOf(p) : t.phase = "local_released"
           /\ \A i \in ChunkIndices : ~Queued(p, i))
  /\ [][\A p \in ProcessCalls :
          pc[p] = "done" => InvocationState(p)' = InvocationState(p)]_vars

(* A call over two chunks or more has returned while two of its work items *)
(* have each still to release their unit of the count semaphore.           *)
C33_Witness ==
  \E p \in ProcessCalls :
    /\ pc[p] = "done"
    /\ Cardinality(WorkItemsOf(p)) = CountCapacity
    /\ processing_count_semaphore_ = 0

(***************************************************************************)
(* No semaphore is released beyond its capacity.                           *)
(***************************************************************************)

(* The releases that are still to come, per semaphore: the work items and  *)
(* coordinators that have acquired a unit and not yet given it back.       *)
PendingCountReleases ==
  InFlight + Cardinality(HoldingCount)
PendingLocalReleases(p) ==
  Cardinality(HoldingLocal(p))
    + (IF pc[p] \in {"order_acquire", "emplace"} THEN 1 ELSE 0)
PendingOrderReleases ==
  PreSignal + Cardinality({p \in ProcessCalls : pc[p] = "emplace"})
PendingLaneReleases ==
  Cardinality({p \in ProcessCalls : Pulling(p)})

(* C34: with callbacks that signal once, the count semaphore has 0 to 2    *)
(* free units, the semaphore of each call 0 to 2, the order and the lane   *)
(* semaphore 0 or 1; and each release still to come has its unit taken:    *)
(* the releases pending on a semaphore never number more than the units    *)
(* taken from it, so that none can lift it above its capacity.             *)
C34_NoReleaseBeyondCapacity ==
  /\ processing_count_semaphore_ \in 0..CountCapacity
  /\ processing_order_semaphore_ \in 0..BinaryCapacity
  /\ lane_process_semaphore_ \in 0..BinaryCapacity
  /\ \A p \in ProcessCalls :
       currently_processing_semaphore[p] \in 0..CountCapacity
  /\ PendingCountReleases <= CountCapacity - processing_count_semaphore_
  /\ PendingOrderReleases <= BinaryCapacity - processing_order_semaphore_
  /\ PendingLaneReleases <= BinaryCapacity - lane_process_semaphore_
  /\ \A p \in ProcessCalls :
       PendingLocalReleases(p) <= CountCapacity - currently_processing_semaphore[p]

(* Every semaphore is at 0 at once: a call that pulls its lane has one     *)
(* work item in a callback that has signaled and one queued, and holds a   *)
(* third chunk.                                                            *)
C34_Witness ==
  \E p \in ProcessCalls :
    /\ pc[p] = "count_acquire"
    /\ currently_processing_semaphore[p] = 0
    /\ processing_count_semaphore_ = 0
    /\ processing_order_semaphore_ = 0
    /\ lane_process_semaphore_ = 0
    /\ Len(task_queue_) = 1

(***************************************************************************)
(* How far the coordinator reads ahead.                                    *)
(***************************************************************************)

(* The number of chunks call p has read from its lane. *)
Taken(p) == Len(emitted[p]) - Len(data_lane[p])

(* ... and of those, the ones whose work item it has not queued yet. *)
InHand(p) ==
  Taken(p) - Cardinality({i \in ChunkIndices : Submitted(p, i)})

(* The chunks read from any lane whose work item has not ended. *)
TakenNotFinished ==
  {c \in ProcessCalls \X ChunkIndices :
     c[2] < Taken(c[1]) /\ ~Finished(c[1], c[2])}

(* C35: a coordinator holds at most one chunk that it has read and not yet *)
(* queued, the chunks before it are all queued, and only one coordinator   *)
(* at a time holds one; the chunks read from all lanes whose work item has *)
(* not ended are at most 3: the 2 in flight and the one in hand.           *)
C35_ReadsAheadByOne ==
  /\ \A p \in ProcessCalls :
       /\ InHand(p) \in {0, 1}
       /\ InHand(p) = 1 <=> chunk_data[p] # NoChunk
       /\ \A i \in ChunkIndices : i < chunk_index[p] => Submitted(p, i)
       /\ Taken(p) = chunk_index[p] + InHand(p)
  /\ Cardinality({p \in ProcessCalls : InHand(p) = 1}) <= 1
  /\ Cardinality(TakenNotFinished) <= CountCapacity + 1
  /\ Cardinality(TakenNotFinished) = InFlight + Cardinality({p \in ProcessCalls : InHand(p) = 1})

(* Three chunks are out of their lanes and not done with: the last one of  *)
(* the call that pulled first and the first one of the other call are with *)
(* the pool, and the other call holds its second chunk.                    *)
C35_Witness ==
  \E a, b \in ProcessCalls :
    /\ Cardinality(TakenNotFinished) = CountCapacity + 1
    /\ AcquiredBefore(a, b)
    /\ Outstanding(a, Len(emitted[a]) - 1)
    /\ Outstanding(b, 0)
    /\ InHand(b) = 1
    /\ chunk_index[b] = 1

(***************************************************************************)
(* The exceptions of the partial-copy constructor.                         *)
(***************************************************************************)

(* The end of the range taken of the band of data_desc_id id. *)
BandEndChannel(source, id, end_channel) ==
  Min(ChannelCount(source[id + 1].second), end_channel)

(* The data_desc_ids with a band of which the range holds no channel. *)
FailingIds(source, start_channel, end_channel) ==
  {id \in DataDescIds(source) :
     start_channel >= BandEndChannel(source, id, end_channel)}

(* The channel ranges the constructor is tried with. *)
StartInputs == 0..MaxChannels
EndInputs == 0..(MaxChannels + 1)

(* C36 as stated: whichever band has start_channel beyond the end of its   *)
(* range makes the exception 'Invalid band selection', and whichever band  *)
(* has start_channel at the end of its range makes it 'No channels in      *)
(* set'.                                                                   *)
C36_ErrorOfAnyFailingBand ==
  \A start_channel \in StartInputs, end_channel \in EndInputs :
    \A id \in FailingIds(band_data_, start_channel, end_channel) :
      Constructed(band_data_, start_channel, end_channel).error =
        IF start_channel > BandEndChannel(band_data_, id, end_channel)
          THEN "Invalid band selection"
          ELSE "No channels in set"

(* C36: the partial-copy constructor throws, and constructs nothing, when  *)
(* and only when for some data_desc_id that has a band start_channel >=    *)
(* min(end_channel, channel count of that band); the exception is the one  *)
(* of the first such band in increasing data_desc_id: 'Invalid band        *)
(* selection' when start_channel is greater, 'No channels in set' when it  *)
(* is equal.  The data_desc_ids without a band play no part: they do not   *)
(* make the constructor throw.                                             *)
C36_ErrorOfFirstFailingBand ==
  \A start_channel \in StartInputs, end_channel \in EndInputs :
    LET made == Constructed(band_data_, start_channel, end_channel)
        failing == FailingIds(band_data_, start_channel, end_channel)
    IN  /\ made.error = "none" <=> failing = {}
        /\ made.error # "none" => made.bands = <<>>
        /\ failing # {} =>
             LET first == CHOOSE id \in failing : \A other \in failing : id <= other
             IN  made.error =
                   IF start_channel > BandEndChannel(band_data_, first, end_channel)
                     THEN "Invalid band selection"
                     ELSE "No channels in set"
        /\ (band_ret.op = "MultiBandData" /\ band_ret.error # "none") =>
             band_data_ = band_data_before

(* The constructor has thrown 'No channels in set' on a source with a gap  *)
(* at data_desc_id 0 and two bands of different widths, for a range whose  *)
(* start is at the end of the first band and beyond the end of the second. *)
C36_Witness ==
  /\ band_ret.op = "MultiBandData"
  /\ band_ret.error = "No channels in set"
  /\ ~HasDataDescId(band_data_, 0)
  /\ \E start_channel \in StartInputs, end_channel \in EndInputs :
       \E id, other \in FailingIds(band_data_, start_channel, end_channel) :
         /\ id < other
         /\ start_channel = BandEndChannel(band_data_, id, end_channel)
         /\ start_channel > BandEndChannel(band_data_, other, end_channel)

(***************************************************************************)
(* The band indices given by AddBand and SetBand.                          *)
(***************************************************************************)

(* No two data_desc_ids with a band have the same band index. *)
BandIndicesDistinct(bands) ==
  \A a, b \in DataDescIds(bands) :
    a # b => GetBandIndex(bands, a) # GetBandIndex(bands, b)

(* The band indices in use. *)
BandIndices(bands) == {GetBandIndex(bands, id) : id \in DataDescIds(bands)}

(* C37: in every MultiBandData built from an empty one by AddBand and      *)
(* SetBand, the data_desc_ids that have a band have pairwise different     *)
(* band indices.  A vector that is not empty holds a band, so, an unset    *)
(* band index being below every set one, HighestBandId() is the largest    *)
(* band index in use; and whatever AddBand or SetBand call comes next, on  *)
(* a new data_desc_id, on one that leaves a gap or on one that has a band, *)
(* its band gets an index above all those in use and the indices are       *)
(* pairwise different again.                                               *)
C37_BandIndicesPairwiseDistinct ==
  /\ BandIndicesDistinct(band_data_)
  /\ ~Empty(band_data_) =>
       /\ DataDescIds(band_data_) # {}
       /\ \A h \in HighestBandId(band_data_) :
            /\ h \in BandIndices(band_data_)
            /\ \A n \in BandIndices(band_data_) : n <= h
  /\ \A band_id \in NextBandId(band_data_), data \in BandInputs :
       /\ band_id \notin BandIndices(band_data_)
       /\ BandIndicesDistinct(EmplaceBack(band_data_, element_type(band_id, data)))
       /\ \A data_desc_id \in 0..(MaxSlots - 1) :
            BandIndicesDistinct(
              AlwaysEmplace(band_data_, data_desc_id, element_type(band_id, data)))

(* SetBand left a gap at data_desc_id 0 and AddBand added a second band:   *)
(* two bands with different band indices next to a data_desc_id without    *)
(* one.                                                                    *)
C37_Witness ==
  /\ band_ret.op = "AddBand"
  /\ ~HasDataDescId(band_data_, 0)
  /\ Cardinality(DataDescIds(band_data_)) = 2
  /\ Cardinality(BandIndices(band_data_)) = 2

====
